---- MODULE Spec2Model ----
(***************************************************************************)
(* A model of wid_script_SAP.py: the WebI .wid field extractor.            *)
(*                                                                         *)
(* Strings are TLA+ strings over printable ASCII; the string functions are *)
(* computed character by character the way the Python code computes them.  *)
(* A DP_Generic text is modelled by its lexical content as the regular     *)
(* expressions of the extractors see it: an optional QuerySpec fragment    *)
(* (a sequence of elements with their attributes) followed by a sequence   *)
(* of items (assignment lines, bare references, bare attributes), laid out *)
(* so that no pattern straddles two items.                                 *)
(***************************************************************************)
EXTENDS Integers, Sequences, FiniteSets, TLC

(* ------------------------------ bounds --------------------------------- *)
MaxLen == 3          \* longest name given to clean_column_name on its own
MaxFiles == 2        \* longest directory listing
MaxProviders == 2    \* most provider folders in one archive

(* ------------------------- characters, strings ------------------------- *)
\* the printable characters 32..95 and 97..126 (the grave accent, 96, is in
\* no input)
ASCII_LO == " !\"#$%&'(" \o ")*+,-./0123456789:;<=>?@ABCDEFGHIJKLMNOPQRSTUVWXYZ[\\]^_"
ASCII_HI == "abcdefghijklmnopqrstuvwxyz{|}~"

Char(s, i) == SubSeq(s, i, i)

OrdTable ==
    [c \in {Char(ASCII_LO, i) : i \in 1..Len(ASCII_LO)}
              \cup {Char(ASCII_HI, i) : i \in 1..Len(ASCII_HI)} |->
       IF \E i \in 1..Len(ASCII_LO) : Char(ASCII_LO, i) = c
       THEN 31 + (CHOOSE i \in 1..Len(ASCII_LO) : Char(ASCII_LO, i) = c)
       ELSE 96 + (CHOOSE i \in 1..Len(ASCII_HI) : Char(ASCII_HI, i) = c)]

chr(n) == IF n <= 95 THEN Char(ASCII_LO, n - 31) ELSE Char(ASCII_HI, n - 96)

ord(c) == OrdTable[c]

isupper(c) == ord(c) \in 65..90
isalpha(c) == ord(c) \in 65..90 \/ ord(c) \in 97..122
isdigit(c) == ord(c) \in 48..57
isspace(c) == c = " "
isword(c) == isalpha(c) \/ isdigit(c) \/ c = "_"

\* ''.join(parts[lo..hi])
RECURSIVE join(_, _, _)
join(parts, lo, hi) ==
    IF lo > hi THEN ""
    ELSE IF lo = hi THEN parts[lo]
    ELSE LET mid == (lo + hi) \div 2
         IN join(parts, lo, mid) \o join(parts, mid + 1, hi)

lower_char(c) == IF isupper(c) THEN chr(ord(c) + 32) ELSE c
upper_char(c) == IF ord(c) \in 97..122 THEN chr(ord(c) - 32) ELSE c

\* str.lower, str.upper
lower(s) == join([i \in 1..Len(s) |-> lower_char(Char(s, i))], 1, Len(s))
upper(s) == join([i \in 1..Len(s) |-> upper_char(Char(s, i))], 1, Len(s))

\* str(i) of a natural number
RECURSIVE str(_)
str(i) == IF i < 10 THEN Char("0123456789", i + 1)
          ELSE str(i \div 10) \o Char("0123456789", (i % 10) + 1)

\* a < b in Python's ordering of str (by code point)
StrLT(a, b) ==
    \E i \in 1..Len(b) :
        /\ i - 1 <= Len(a)
        /\ SubSeq(a, 1, i - 1) = SubSeq(b, 1, i - 1)
        /\ (i > Len(a) \/ ord(Char(a, i)) < ord(Char(b, i)))

\* str.endswith, the in operator on str
endswith(s, p) == Len(s) >= Len(p) /\ SubSeq(s, Len(s) - Len(p) + 1, Len(s)) = p
contains(s, p) == \E i \in 1..(Len(s) - Len(p) + 1) : SubSeq(s, i, i + Len(p) - 1) = p

\* str.strip(): leading and trailing whitespace removed
RECURSIVE lstrip(_, _)
lstrip(s, c) == IF s # "" /\ Char(s, 1) = c THEN lstrip(Tail(s), c) ELSE s
RECURSIVE rstrip(_, _)
rstrip(s, c) == IF s # "" /\ Char(s, Len(s)) = c
                THEN rstrip(SubSeq(s, 1, Len(s) - 1), c) ELSE s
strip(s, c) == rstrip(lstrip(s, c), c)

(* --------------------------- clean_column_name ------------------------- *)
\* re.sub(r'[^A-Za-z0-9\s]', '', s)
sub_nonalnum(s) ==
    join([i \in 1..Len(s) |->
            LET c == Char(s, i)
            IN IF isalpha(c) \/ isdigit(c) \/ isspace(c) THEN c ELSE ""],
         1, Len(s))

\* re.sub(r'\s+', '_', s): every maximal whitespace run becomes one '_'
sub_spaces(s) ==
    join([i \in 1..Len(s) |->
            IF ~isspace(Char(s, i)) THEN Char(s, i)
            ELSE IF i > 1 /\ isspace(Char(s, i - 1)) THEN "" ELSE "_"],
         1, Len(s))

clean_column_name(name) ==
    LET s == lower(strip(sub_spaces(sub_nonalnum(name)), "_"))
    IN IF s # "" /\ ~isalpha(Char(s, 1)) THEN "f_" \o s ELSE s


(* ------------------------------ dictionaries --------------------------- *)
\* A Python dict is a sequence of <<key, value>> in insertion order; an
\* assignment to a key that is present replaces the value in place.
has_key(d, key) == \E i \in 1..Len(d) : d[i][1] = key

\* d[key] = v
setitem(d, key, v) ==
    IF has_key(d, key)
    THEN [i \in 1..Len(d) |-> IF d[i][1] = key THEN <<key, v>> ELSE d[i]]
    ELSE Append(d, <<key, v>>)

\* d.setdefault(key, v)
setdefault(d, key, v) ==
    IF has_key(d, key) THEN d ELSE Append(d, <<key, v>>)

\* d.get(key, default)
get(d, key, default) ==
    IF has_key(d, key) THEN d[CHOOSE i \in 1..Len(d) : d[i][1] = key][2] ELSE default

keys(d) == {d[i][1] : i \in 1..Len(d)}

(* ------------------------- texts of an archive ------------------------- *)
None == [none |-> TRUE]

\* an element of the QuerySpec fragment; "" is an absent attribute
Elem(tag, id, nm, expression, formula, calculation, alias) ==
    [tag |-> tag, id |-> id, name |-> nm, expression |-> expression,
     formula |-> formula, calculation |-> calculation, alias |-> alias]

\* the items after the fragment
Assign(nm, value, ref) == [kind |-> "assign", name |-> nm, value |-> value, ref |-> ref]
Ref(ref) == [kind |-> "ref", name |-> "", value |-> "", ref |-> ref]
Attr(attr, value) == [kind |-> "attr", name |-> attr, value |-> value, ref |-> ""]

\* frag: "none" (no QuerySpec block), "ok" (well-formed) or "bad" (the block
\* is there but is not well-formed XML); root: the opening tag of the block
Text(frag, root, elems, tail) ==
    [frag |-> frag, root |-> root, elems |-> elems, tail |-> tail]

NoText == Text("none", "", <<>>, <<>>)

\* an archive entry: a name, the text of a DP_Generic file, and the
\* document-level definitions of a document file
Entry(nm, text, calcs, vars) == [name |-> nm, text |-> text, calcs |-> calcs, vars |-> vars]

(* ------------------------------ extract_xml ---------------------------- *)
extract_xml(text) == IF text.frag = "none" THEN None ELSE text

(* ----------------------- extract_data_provider_names ------------------- *)
\* the longest run of digits of s from position i on: its last index, i-1 if none
RECURSIVE digits_end(_, _)
digits_end(s, i) == IF i <= Len(s) /\ isdigit(Char(s, i)) THEN digits_end(s, i + 1) ELSE i - 1

RECURSIVE word_end(_, _)
word_end(s, i) == IF i <= Len(s) /\ isword(Char(s, i)) THEN word_end(s, i + 1) ELSE i - 1

\* re.search(r'(DP\d+)', fn): the first match, "" if there is none
search_dp(fn) ==
    LET starts == {i \in 1..Len(fn) : /\ i + 2 <= Len(fn)
                                      /\ SubSeq(fn, i, i + 1) = "DP"
                                      /\ isdigit(Char(fn, i + 2))}
    IN IF starts = {} THEN ""
       ELSE LET i == CHOOSE j \in starts : \A h \in starts : j <= h
            IN SubSeq(fn, i, digits_end(fn, i + 2))

\* re.search(r'\bw\b', s) for a word w
word_in(s, w) ==
    \E i \in 1..(Len(s) - Len(w) + 1) :
        /\ SubSeq(s, i, i + Len(w) - 1) = w
        /\ (i = 1 \/ ~isword(Char(s, i - 1)))
        /\ (i + Len(w) > Len(s) \/ ~isword(Char(s, i + Len(w))))

classify(dp, text) ==
    LET qxml == extract_xml(text)
        lo == lower(qxml.root)
    IN IF qxml = None THEN dp
       ELSE IF contains(lo, "com.sap.sl.queryspec") \/ contains(lo, "bex") THEN "BEx"
       ELSE IF word_in(lo, "emp") THEN "EMP"
       ELSE IF word_in(lo, "universe") \/ word_in(lo, "universes") THEN "universes"
       ELSE dp

RECURSIVE dp_names_from(_, _, _)
dp_names_from(z, i, acc) ==
    IF i > Len(z) THEN acc
    ELSE LET fn == z[i].name
             m == search_dp(fn)
         IN IF endswith(fn, "DP_Generic") /\ m # ""
            THEN dp_names_from(z, i + 1, setitem(acc, m, classify(m, z[i].text)))
            ELSE dp_names_from(z, i + 1, acc)

extract_data_provider_names(z) == dp_names_from(z, 1, <<>>)

(* -------------------- extract_comprehensive_field_info ----------------- *)
first_of(a, b, c) == IF a # "" THEN a ELSE IF b # "" THEN b ELSE c

RECURSIVE objects_from(_, _, _)
objects_from(elems, i, info) ==
    IF i > Len(elems) THEN info
    ELSE LET el == elems[i]
             fid == el.id
             disp == el.name
             expr == first_of(el.expression, el.formula, el.calculation)
         IN IF fid # "" /\ disp # ""
            THEN objects_from(elems, i + 1,
                   setitem(info, fid,
                     [display_name |-> strip(disp, " "),
                      expression |-> strip(expr, " "),
                      element_type |-> el.tag,
                      data_type |-> "",
                      is_calculated |-> strip(expr, " ") # ""]))
            ELSE objects_from(elems, i + 1, info)

RECURSIVE query_calculations_from(_, _, _)
query_calculations_from(elems, i, info) ==
    IF i > Len(elems) THEN info
    ELSE LET el == elems[i]
         IN IF lower(el.tag) = "querycalculation" /\ el.alias # "" /\ el.calculation # ""
            THEN query_calculations_from(elems, i + 1,
                   setitem(info, "QC::" \o strip(el.alias, " "),
                     [display_name |-> strip(el.alias, " "),
                      expression |-> strip(el.calculation, " "),
                      element_type |-> "QueryCalculation",
                      data_type |-> "",
                      is_calculated |-> TRUE]))
            ELSE query_calculations_from(elems, i + 1, info)

extract_comprehensive_field_info(xml_text) ==
    IF xml_text = None THEN <<>>
    ELSE IF xml_text.frag = "bad" THEN <<>>
    ELSE query_calculations_from(xml_text.elems, 1,
            objects_from(xml_text.elems, 1, <<>>))

(* -------------------------- extract_direct_mappings -------------------- *)
\* re.fullmatch(r'DP\d+\.DO\w+', s, re.IGNORECASE)
is_ref(s) ==
    /\ Len(s) >= 7
    /\ upper(SubSeq(s, 1, 2)) = "DP"
    /\ LET d == digits_end(s, 3)
       IN /\ d >= 3
          /\ upper(SubSeq(s, d + 1, d + 3)) = ".DO"
          /\ d + 4 <= Len(s)
          /\ word_end(s, d + 4) = Len(s)

\* the reference tokens of the text in order: the identifiers of the
\* fragment's elements that are reference tokens, then those of the items
refs_of(text) ==
    LET ids == [i \in 1..Len(text.elems) |-> text.elems[i].id]
        its == [i \in 1..Len(text.tail) |-> text.tail[i].ref]
    IN SelectSeq(ids \o its, is_ref)

RECURSIVE pat1_from(_, _, _)
pat1_from(tail, i, dm) ==
    IF i > Len(tail) THEN dm
    ELSE IF tail[i].kind = "assign"
         THEN pat1_from(tail, i + 1,
                setitem(dm, tail[i].ref,
                  [display_name |-> strip(tail[i].name, " "),
                   sample_value |-> strip(tail[i].value, " ")]))
         ELSE pat1_from(tail, i + 1, dm)

RECURSIVE pat2_from(_, _, _)
pat2_from(refs, i, dm) ==
    IF i > Len(refs) THEN dm
    ELSE pat2_from(refs, i + 1,
           setdefault(dm, refs[i], [display_name |-> "", sample_value |-> ""]))

extract_direct_mappings(text) ==
    pat2_from(refs_of(text), 1, pat1_from(text.tail, 1, <<>>))

(* ---------------------------- extract_dp_formulas ---------------------- *)
\* the values of the attribute attr in the text, in order; the pattern
\* wants a non-empty value
attr_of(el, attr) ==
    IF attr = "formula" THEN el.formula
    ELSE IF attr = "expression" THEN el.expression
    ELSE el.calculation

\* a scan that passes over the QuerySpec fragment
matches_of_items_only(text, attr) ==
    SelectSeq([i \in 1..Len(text.tail) |->
                 IF text.tail[i].kind = "attr" /\ lower(text.tail[i].name) = attr
                 THEN text.tail[i].value ELSE ""],
              LAMBDA v : v # "")

matches_of(text, attr) ==
    LET inx == [i \in 1..Len(text.elems) |-> attr_of(text.elems[i], attr)]
        int == [i \in 1..Len(text.tail) |->
                  IF text.tail[i].kind = "attr" /\ lower(text.tail[i].name) = attr
                  THEN text.tail[i].value ELSE ""]
    IN SelectSeq(inx \o int, LAMBDA v : v # "")

RECURSIVE enumerate_into(_, _, _, _)
enumerate_into(ms, i, dp_id, out) ==
    IF i > Len(ms) THEN out
    ELSE enumerate_into(ms, i + 1, dp_id,
           setitem(out, dp_id \o "_FORM_" \o str(i - 1), strip(ms[i], " ")))

form_key_patterns == <<"formula", "expression", "calculation">>

RECURSIVE patterns_from(_, _, _, _)
patterns_from(text, p, dp_id, out) ==
    IF p > Len(form_key_patterns) THEN out
    ELSE patterns_from(text, p + 1, dp_id,
           enumerate_into(matches_of(text, form_key_patterns[p]), 1, dp_id, out))

extract_dp_formulas(text, dp_id) == patterns_from(text, 1, dp_id, <<>>)

(* ----------------------------- mapping rows ---------------------------- *)
Row(dpid, dp, tid, disp, ftype, formula, descr, sample, col, xmlid) ==
    [Data_Provider_ID |-> dpid, Data_Provider |-> dp, Technical_ID |-> tid,
     Display_Name |-> disp, Field_Type |-> ftype, Formula |-> formula,
     Description |-> descr, Sample_Value |-> sample, Databricks_Table |-> "",
     Databricks_Column |-> col, XML_ID |-> xmlid]

(* ------------------------- process_enhanced_mappings ------------------- *)
\* the check of line 266 left out: no direct-mapping record is ever skipped
already_present_never(out, tid) == FALSE

\* any(r['Technical ID']==tid for r in out)
already_present(out, tid) == \E i \in 1..Len(out) : out[i].Technical_ID = tid

direct_row(dp_id, dp_name, tid, mm) ==
    Row(dp_id, dp_name, tid, mm.display_name, "Data Field", "",
        "Direct mapping", mm.sample_value,
        clean_column_name(IF mm.display_name # "" THEN mm.display_name ELSE tid),
        "")

RECURSIVE direct_rows_from(_, _, _, _, _)
direct_rows_from(dp_id, dp_name, direct_map, i, out) ==
    IF i > Len(direct_map) THEN out
    ELSE LET tid == direct_map[i][1]
             mm == direct_map[i][2]
         IN direct_rows_from(dp_id, dp_name, direct_map, i + 1,
              IF already_present(out, tid) THEN out
              ELSE Append(out, direct_row(dp_id, dp_name, tid, mm)))

field_row(dp_id, dp_name, fid, fi) ==
    Row(dp_id, dp_name, fid, fi.display_name,
        IF fi.is_calculated THEN "Calculated Field" ELSE "Data Field",
        fi.expression,
        fi.element_type \o ", type=" \o fi.data_type,
        "", clean_column_name(fi.display_name), fid)

formula_row(dp_id, dp_name, fid, formula) ==
    Row(dp_id, dp_name, fid, "Formula " \o fid, "Data Provider Formula", formula,
        "From DP_Generic", "", clean_column_name("formula_" \o fid), "")

process_enhanced_mappings(dp_id, dp_name, field_info, direct_map, dp_forms, out) ==
    LET fields == [i \in 1..Len(field_info) |->
                     field_row(dp_id, dp_name, field_info[i][1], field_info[i][2])]
        forms == [i \in 1..Len(dp_forms) |->
                     formula_row(dp_id, dp_name, dp_forms[i][1], dp_forms[i][2])]
    IN direct_rows_from(dp_id, dp_name, direct_map, 1, out \o fields) \o forms

(* -------------------------- document-level scanners -------------------- *)
any_in(fn, words) == LET up == upper(fn) IN \E w \in words : contains(up, w)

\* the matches of one file: the CalculatedField pattern first, then the
\* QueryCalculation pattern
calc_matches(e) ==
    SelectSeq(e.calcs, LAMBDA c : lower(c.tag) = "calculatedfield")
      \o SelectSeq(e.calcs, LAMBDA c : lower(c.tag) = "querycalculation")

RECURSIVE append_numbered(_, _, _, _, _)
append_numbered(ms, i, prefix, fn, results) ==
    IF i > Len(ms) THEN results
    ELSE append_numbered(ms, i + 1, prefix, fn,
           Append(results,
             [id |-> prefix \o str(Len(results)),
              name |-> strip(ms[i].name, " "),
              formula |-> strip(ms[i].formula, " "),
              description |-> "From " \o fn]))

RECURSIVE calculated_fields_from(_, _, _)
calculated_fields_from(z, i, results) ==
    IF i > Len(z) THEN results
    ELSE IF any_in(z[i].name, {"DOCUMENT", "REPORT", "STRUCTURE"})
         THEN calculated_fields_from(z, i + 1,
                append_numbered(calc_matches(z[i]), 1, "CF_", z[i].name, results))
         ELSE calculated_fields_from(z, i + 1, results)

extract_calculated_fields(z) == calculated_fields_from(z, 1, <<>>)

RECURSIVE report_variables_from(_, _, _)
report_variables_from(z, i, results) ==
    IF i > Len(z) THEN results
    ELSE IF any_in(z[i].name, {"DOCUMENT", "VARIABLE", "FORMULA"})
         THEN report_variables_from(z, i + 1,
                append_numbered(z[i].vars, 1, "RV_", z[i].name, results))
         ELSE report_variables_from(z, i + 1, results)

extract_report_variables(z) == report_variables_from(z, 1, <<>>)

(* ------------------------------- sort_values --------------------------- *)
\* df.sort_values(['Data Provider','Display Name']): the lexicographic sort
\* of pandas on several columns is a stable sort
key_lt(r, q) ==
    \/ StrLT(r.Data_Provider, q.Data_Provider)
    \/ r.Data_Provider = q.Data_Provider /\ StrLT(r.Display_Name, q.Display_Name)

\* a sort that is not stable: r goes before the rows of equal key
place_row_unstable(sorted, r) ==
    LET n == Cardinality({i \in 1..Len(sorted) : key_lt(sorted[i], r)})
    IN SubSeq(sorted, 1, n) \o <<r>> \o SubSeq(sorted, n + 1, Len(sorted))

\* r goes after every row of the sorted sequence that is not greater
place_row(sorted, r) ==
    LET n == Cardinality({i \in 1..Len(sorted) : ~key_lt(r, sorted[i])})
    IN SubSeq(sorted, 1, n) \o <<r>> \o SubSeq(sorted, n + 1, Len(sorted))

RECURSIVE sort_from(_, _, _)
sort_from(rows, i, sorted) ==
    IF i > Len(rows) THEN sorted ELSE sort_from(rows, i + 1, place_row(sorted, rows[i]))

sort_values(rows) == sort_from(rows, 1, <<>>)

(* ------------------------- extract_field_mappings ---------------------- *)
ZIP_SIGNATURE == <<80, 75, 3, 4>>      \* b'PK\x03\x04'

\* a search for the first two bytes of sub only
find_two_bytes(raw, sub) ==
    LET at == {i \in 0..(Len(raw) - 2) : SubSeq(raw, i + 1, i + 2) = SubSeq(sub, 1, 2)}
    IN IF at = {} THEN -1 ELSE CHOOSE i \in at : \A j \in at : i <= j

\* bytes.find: the lowest index (from 0) where sub occurs, -1 if nowhere
find(raw, sub) ==
    LET at == {i \in 0..(Len(raw) - Len(sub)) : SubSeq(raw, i + 1, i + Len(sub)) = sub}
    IN IF at = {} THEN -1 ELSE CHOOSE i \in at : \A j \in at : i <= j

\* str.split(sep) for a separator of one character
RECURSIVE split(_, _)
split(s, sep) ==
    LET at == {i \in 1..Len(s) : Char(s, i) = sep}
    IN IF at = {} THEN <<s>>
       ELSE LET i == CHOOSE j \in at : \A h \in at : j <= h
            IN <<SubSeq(s, 1, i - 1)>> \o split(SubSeq(s, i + 1, Len(s)), sep)

namelist(z) == [i \in 1..Len(z) |-> z[i].name]

list_dp_folders(z) ==
    SelectSeq(namelist(z), LAMBDA f : endswith(f, "/") /\ contains(f, "/DATAPROVIDERS/DP"))

dp_id_of(dp_folder) == LET parts == split(dp_folder, "/") IN parts[Len(parts) - 1]

read(z, fn) == z[CHOOSE i \in 1..Len(z) : z[i].name = fn].text

\* one iteration of the loop over dp_folders
merge_provider(dp_id, dp_nm, text, mappings) ==
    LET xml == extract_xml(text)
        field_info == IF xml # None THEN extract_comprehensive_field_info(xml) ELSE <<>>
        direct_map == extract_direct_mappings(text)
        dp_forms == extract_dp_formulas(text, dp_id)
    IN process_enhanced_mappings(dp_id, dp_nm, field_info, direct_map, dp_forms, mappings)

provider_step(z, dp_names, dp_folder, mappings) ==
    LET dp_id == dp_id_of(dp_folder)
        dp_nm == get(dp_names, dp_id, dp_id)
        dpg == dp_folder \o "DP_Generic"
    IN IF \A i \in 1..Len(z) : z[i].name # dpg THEN mappings
       ELSE merge_provider(dp_id, dp_nm, read(z, dpg), mappings)

document_rows(calc_fields, report_vars) ==
    [i \in 1..Len(calc_fields) |->
        LET cf == calc_fields[i]
        IN Row("CALC", "Document Variables", cf.id, cf.name, "Calculated Field",
               cf.formula, cf.description, "", clean_column_name(cf.name), "")]
    \o
    [i \in 1..Len(report_vars) |->
        LET rv == report_vars[i]
        IN Row("VAR", "Report Variables", rv.id, rv.name, "Report Variable",
               rv.formula, rv.description, "", clean_column_name(rv.name), "")]

(* -------------------------------- inputs ------------------------------- *)
\* the contents a .wid file can have before and at the embedded archive
Raws == { <<>>, <<87, 73, 68>>, <<80, 75, 3>>, <<80, 75, 4, 3>>,
          <<87, 80, 75, 80, 75, 3, 4>> }

Object(id, nm, expression, formula) == Elem("object", id, nm, expression, formula, "", "")

TextRevenue ==
    Text("ok", "<QuerySpec>", <<Object("F1", "Revenue", "SUM(X)", "")>>, <<>>)
TextTotal ==
    Text("none", "", <<>>,
         <<Ref("DP0.DO2"), Assign("Total ", " 42", "DP1.DO7"), Ref("DP0.DO1"), Ref("DP1.DO7")>>)
TextBoth ==
    Text("ok", "<bex:QuerySpec xmlns:bex=\"u\">", <<Object("DP1.DO7", "Net", "", "")>>,
         <<Assign("Total", "42", "DP1.DO7"), Ref("DP0.DO1")>>)
TextForms ==
    Text("bad", "<QuerySpec kind=\"emp\">", <<Object("F2", "Cost", "", "A+B")>>,
         <<Attr("expression", "C*2"), Attr("Formula", "D")>>)
TextCalc ==
    Text("ok", "<QuerySpec src=\"Universe\">",
         <<Object("CF_0", "1 Cost $", "", ""),
           Object("F9", "", "X", ""),
           Object("F3", " ", "", ""),
           Elem("QueryCalculation", "", "", "", "", "COUNT(Y)", "Cnt")>>,
         <<>>)
ProviderInputs == {TextRevenue, TextTotal, TextBoth, TextForms, TextCalc}

Calc(tag, nm, formula) == [tag |-> tag, name |-> nm, formula |-> formula]
Var(nm, formula) == [name |-> nm, formula |-> formula]

DocEntries ==
    { <<>>,
      <<Entry("W/Document", NoText,
              <<Calc("QueryCalculation", "Net", "A-B"), Calc("CalculatedField", "Margin", "M")>>,
              <<Var("Rate", "0.2")>>),
        Entry("W/Reports", NoText, <<Calc("CalculatedField", "Net", "N")>>, <<Var("Q", "1")>>)>> }

Layouts == {"flat", "nested"}

\* a provider folder lies under a further folder only in archives that also
\* hold the document entries
Shapes == {sh \in Layouts \X DocEntries : sh[1] = "nested" => sh[2] # <<>>}

\* the folder of provider i; in the nested layout the first provider has its
\* DP_Generic in a folder CALC of the folder DP0, which holds nothing else
folder_name(i, layout) ==
    IF layout = "nested" /\ i = 1 THEN "W/DATAPROVIDERS/DP0/CALC/"
    ELSE "W/DATAPROVIDERS/DP" \o str(i - 1) \o "/"

RECURSIVE provider_entries(_, _, _)
provider_entries(provs, i, layout) ==
    IF i > Len(provs) THEN <<>>
    ELSE LET folder == folder_name(i, layout)
         IN (IF layout = "nested" /\ i = 1
             THEN <<Entry("W/DATAPROVIDERS/DP0/", NoText, <<>>, <<>>)>> ELSE <<>>)
            \o <<Entry(folder, NoText, <<>>, <<>>),
                 Entry(folder \o "DP_Generic", provs[i], <<>>, <<>>)>>
            \o provider_entries(provs, i + 1, layout)

Archives ==
    { provider_entries(provs, 1, sh[1]) \o sh[2] :
        provs \in UNION {[1..n -> ProviderInputs] : n \in 0..MaxProviders},
        sh \in Shapes }

file_name(i, wid) == IF wid THEN "r" \o str(i) \o ".WID" ELSE "n" \o str(i) \o ".txt"

\* the listings of a directory: .wid files, after one other file or none
Listings ==
    { [i \in 1..n |-> file_name(i, i > other)] : n \in 0..MaxFiles, other \in {0, 1} }

Inputs ==
    { [isdir |-> FALSE, listing |-> <<"report.wid">>] }
    \cup { [isdir |-> TRUE, listing |-> l] : l \in Listings }

(* -------------------------------- state -------------------------------- *)
VARIABLES
    input,      \* the parsed arguments: input is a directory? and the files
    pc,         \* "main", "providers", "build", "return", "raised" or "exit"
    fidx,       \* position of main's loop in the listing
    raw,        \* bytes of the file being processed
    z,          \* its archive
    dp_names, calc_fields, report_vars, dp_folders,   \* the locals of these names
    k,          \* position of the loop over dp_folders
    mappings,   \* the accumulated rows
    table,      \* the sorted DataFrame
    written,    \* the call has written its spreadsheet and its CSV file
    name, once, twice, cpc   \* an argument of clean_column_name and its results

pvars == <<input, pc, fidx, raw, z, dp_names, calc_fields, report_vars, dp_folders, k, mappings,
          table, written>>
locals == <<dp_names, calc_fields, report_vars, dp_folders>>
cvars == <<name, once, twice, cpc>>
vars == <<pvars, cvars>>

(* --------------------------------- main -------------------------------- *)
Idle ==
    /\ raw = <<>> /\ z = <<>> /\ k = 0 /\ mappings = <<>> /\ table = <<>>
    /\ dp_names = <<>> /\ calc_fields = <<>> /\ report_vars = <<>> /\ dp_folders = <<>>

Init ==
    /\ input \in Inputs
    /\ pc = "main"
    /\ fidx = 1
    /\ Idle
    /\ written = FALSE
    /\ name = "" /\ once = "" /\ twice = "" /\ cpc = 0

is_wid(f) == endswith(lower(f), ".wid")

\* main: a file of the directory that is not a .wid file is passed over
SkipFile ==
    /\ pc = "main"
    /\ fidx <= Len(input.listing)
    /\ input.isdir
    /\ ~is_wid(input.listing[fidx])
    /\ fidx' = fidx + 1
    /\ UNCHANGED <<input, pc, raw, z, locals, k, mappings, table, written, cvars>>

\* extract_field_mappings, steps 1 to 3: read the file and locate the
\* archive (the ValueError is caught nowhere and ends the run), classify the
\* providers and pull the document-level definitions
OpenWid ==
    /\ pc = "main"
    /\ fidx <= Len(input.listing)
    /\ input.isdir => is_wid(input.listing[fidx])
    /\ \E r \in Raws :
         /\ raw' = r
         /\ IF find(r, ZIP_SIGNATURE) < 0
            THEN /\ pc' = "raised"
                 /\ z' = <<>>
                 /\ dp_names' = <<>> /\ calc_fields' = <<>> /\ report_vars' = <<>>
                 /\ dp_folders' = <<>>
                 /\ k' = 0
            ELSE /\ pc' = "providers"
                 /\ \E archive \in Archives :
                       /\ z' = archive
                       /\ dp_names' = extract_data_provider_names(archive)
                       /\ calc_fields' = extract_calculated_fields(archive)
                       /\ report_vars' = extract_report_variables(archive)
                       /\ dp_folders' = list_dp_folders(archive)
                 /\ k' = 1
    /\ mappings' = <<>>
    /\ table' = <<>>
    /\ UNCHANGED <<input, fidx, written, cvars>>

\* step 4: one data provider folder
ProcessProvider ==
    /\ pc = "providers"
    /\ k <= Len(dp_folders)
    /\ mappings' = provider_step(z, dp_names, dp_folders[k], mappings)
    /\ k' = k + 1
    /\ UNCHANGED <<input, pc, fidx, raw, z, locals, table, written, cvars>>

\* step 5: the document-level rows
AppendDocumentLevel ==
    /\ pc = "providers"
    /\ k > Len(dp_folders)
    /\ mappings' = mappings \o document_rows(calc_fields, report_vars)
    /\ pc' = "build"
    /\ UNCHANGED <<input, fidx, raw, z, locals, k, table, written, cvars>>

\* step 6: nothing is written for an empty table; otherwise the table is
\* sorted and written
BuildAndWrite ==
    /\ pc = "build"
    /\ IF mappings = <<>>
       THEN UNCHANGED <<table, written>>
       ELSE /\ table' = sort_values(mappings)
            /\ written' = TRUE
    /\ pc' = "return"
    /\ UNCHANGED <<input, fidx, raw, z, locals, k, mappings, cvars>>

\* extract_field_mappings returns, its locals are gone, and main goes on to
\* the next file
Return ==
    /\ pc = "return"
    /\ pc' = "main"
    /\ fidx' = fidx + 1
    /\ raw' = <<>> /\ z' = <<>> /\ k' = 0 /\ mappings' = <<>> /\ table' = <<>>
    /\ dp_names' = <<>> /\ calc_fields' = <<>> /\ report_vars' = <<>> /\ dp_folders' = <<>>
    /\ written' = FALSE
    /\ UNCHANGED <<input, cvars>>

Exit ==
    /\ pc = "main"
    /\ fidx > Len(input.listing)
    /\ pc' = "exit"
    /\ UNCHANGED <<input, fidx, raw, z, locals, k, mappings, table, written, cvars>>

Next ==
    \/ SkipFile
    \/ OpenWid
    \/ ProcessProvider
    \/ AppendDocumentLevel
    \/ BuildAndWrite
    \/ Return
    \/ Exit

Spec == Init /\ [][Next]_vars

(* ------------------- clean_column_name on its own ---------------------- *)
Alphabet == {"a", "B", "1", " ", "_", "$"}

RECURSIVE Strs(_)
Strs(n) == IF n = 0 THEN {""}
           ELSE Strs(n - 1) \cup {s \o c : s \in Strs(n - 1), c \in Alphabet}

InitClean ==
    /\ input = [isdir |-> TRUE, listing |-> <<>>]
    /\ pc = "exit"
    /\ fidx = 1
    /\ Idle
    /\ written = FALSE
    /\ name \in Strs(MaxLen)
    /\ once = "" /\ twice = "" /\ cpc = 0

CleanOnce ==
    /\ cpc = 0
    /\ once' = clean_column_name(name)
    /\ cpc' = 1
    /\ UNCHANGED <<name, twice, pvars>>

CleanTwice ==
    /\ cpc = 1
    /\ twice' = clean_column_name(once)
    /\ cpc' = 2
    /\ UNCHANGED <<name, once, pvars>>

NextClean == CleanOnce \/ CleanTwice

SpecClean == InitClean /\ [][NextClean]_vars

(* ------------------------------- claims -------------------------------- *)
\* the loop over dp_folders is over: mappings is the merged output of the
\* providers, before the document-level rows are appended
loop_over == pc = "providers" /\ k > Len(dp_folders)
has_generic(j) == \E i \in 1..Len(z) : z[i].name = dp_folders[j] \o "DP_Generic"
text_of(j) == read(z, dp_folders[j] \o "DP_Generic")
merged(j) == loop_over /\ has_generic(j)
miner_ids(j) ==
    LET text == text_of(j)
    IN IF text.frag = "none" THEN {} ELSE keys(extract_comprehensive_field_info(text))
direct_ids(j) == keys(extract_direct_mappings(text_of(j)))
\* the rows that the merger appended come before the document-level rows
merger_row_count ==
    IF pc = "providers" THEN Len(mappings)
    ELSE Len(mappings) - (Len(calc_fields) + Len(report_vars))
rows_of(j) ==
    LET dp_id == dp_id_of(dp_folders[j])
    IN {i \in 1..merger_row_count : mappings[i].Data_Provider_ID = dp_id}
direct_rows(rows, tid) ==
    {i \in rows : /\ mappings[i].Technical_ID = tid
                  /\ mappings[i].Description = "Direct mapping"}
miner_rows(rows, tid) ==
    {i \in rows : mappings[i].Technical_ID = tid /\ mappings[i].XML_ID = tid}

C2_CleanIsIdempotent == cpc = 2 => twice = once

\* the bytes hold no ZIP local-file-header signature
no_signature(bytes) ==
    ~ \E i \in 1..(Len(bytes) - 3) :
        bytes[i] = 80 /\ bytes[i + 1] = 75 /\ bytes[i + 2] = 3 /\ bytes[i + 3] = 4

\* C3: for a container without the ZIP signature, extract_field_mappings
\* raises before any provider is processed and writes no output for it.
C3_NoSignatureRaises ==
    (pc \in {"providers", "build", "return", "raised"} /\ no_signature(raw)) =>
        /\ pc = "raised"
        /\ k = 0
        /\ mappings = <<>>
        /\ table = <<>>
        /\ ~written

C3_Witness == pc = "raised" /\ no_signature(raw) /\ Len(raw) >= 4

\* C4: in directory mode a file without the ZIP signature is skipped and the
\* run goes on with the other .wid files; the run does not abort.
C4_DirectoryModeContinues == input.isdir => pc # "raised"

\* the container of the end-to-end example: one provider whose text is the
\* QuerySpec fragment with the one object, and nothing else
revenue_only ==
    /\ Len(dp_folders) = 1
    /\ has_generic(1)
    /\ text_of(1).frag = "ok"
    /\ text_of(1).elems = <<Object("F1", "Revenue", "SUM(X)", "")>>
    /\ text_of(1).tail = <<>>
    /\ calc_fields = <<>>
    /\ report_vars = <<>>

is_revenue_row(r) ==
    /\ r.Field_Type = "Calculated Field"
    /\ r.Formula = "SUM(X)"
    /\ r.Databricks_Column = "revenue"

\* C5 as stated: the table of the end-to-end example has exactly one row in
\* total, the Calculated Field row of the object.
C5_ExactlyOneRowInTotal ==
    (pc = "return" /\ revenue_only) =>
        Len(table) = 1 /\ is_revenue_row(table[1])

\* C5 amended: the table of the end-to-end example has exactly one row with
\* Field Type Calculated Field, Formula SUM(X) and Databricks Column revenue,
\* and one more row, the Data Provider Formula row that the formula-attribute
\* scanner makes of the same expression attribute: two rows in total.
C5_OneCalculatedRowAndItsFormulaRow ==
    (pc = "return" /\ revenue_only) =>
        /\ Len(table) = 2
        /\ Cardinality({i \in 1..2 : is_revenue_row(table[i])}) = 1
        /\ \E i \in 1..2 :
              /\ table[i].Field_Type = "Data Provider Formula"
              /\ table[i].Technical_ID = dp_id_of(dp_folders[1]) \o "_FORM_0"
              /\ table[i].Formula = "SUM(X)"

C5_Witness == pc = "return" /\ revenue_only /\ table # <<>>

\* CF_<n> or RV_<n>
is_document_id(s) ==
    /\ Len(s) >= 4
    /\ SubSeq(s, 1, 3) \in {"CF_", "RV_"}
    /\ \A i \in 4..Len(s) : isdigit(Char(s, i))

\* C6: every document-level row has Data Provider ID CALC (calculated
\* fields) or VAR (report variables), and no provider-level row has Data
\* Provider ID CALC or VAR or a Technical ID of the document-level form.
C6_DocumentNamespaceDisjoint ==
    pc \in {"build", "return"} =>
        LET n == merger_row_count
        IN /\ \A i \in (n + 1)..(n + Len(calc_fields)) :
                  mappings[i].Data_Provider_ID = "CALC"
           /\ \A i \in (n + Len(calc_fields) + 1)..Len(mappings) :
                  mappings[i].Data_Provider_ID = "VAR"
           /\ \A i \in 1..n :
                  /\ mappings[i].Data_Provider_ID \notin {"CALC", "VAR"}
                  /\ ~is_document_id(mappings[i].Technical_ID)

same_key(r, q) == r.Data_Provider = q.Data_Provider /\ r.Display_Name = q.Display_Name
key_before(r, q) ==
    \/ StrLT(r.Data_Provider, q.Data_Provider)
    \/ r.Data_Provider = q.Data_Provider /\ StrLT(r.Display_Name, q.Display_Name)

\* C7: the final table is a permutation of the accumulated rows, ordered by
\* provider label then display name, and rows of equal label and display
\* name keep the order in which they were appended.
C7_SortedAndStable ==
    pc = "return" =>
        /\ Len(table) = Len(mappings)
        /\ \A i \in 1..(Len(table) - 1) : ~key_before(table[i + 1], table[i])
        /\ \A h \in 1..Len(mappings) :
              SelectSeq(table, LAMBDA r : same_key(r, mappings[h]))
                = SelectSeq(mappings, LAMBDA r : same_key(r, mappings[h]))

C7_Witness ==
    /\ pc = "return"
    /\ table # mappings
    /\ \E i, j \in 1..Len(table) :
          i < j /\ same_key(table[i], table[j]) /\ table[i] # table[j]

formula_rows(j) ==
    {i \in rows_of(j) : mappings[i].Field_Type = "Data Provider Formula"}

match_count(j) ==
    Len(matches_of(text_of(j), "formula")) + Len(matches_of(text_of(j), "expression"))
      + Len(matches_of(text_of(j), "calculation"))

\* C8: a provider's text with a formula=, b expression= and c calculation=
\* matches yields a+b+c Data Provider Formula rows.
C8_NoFormulaRecordLost ==
    \A j \in 1..Len(dp_folders) :
        merged(j) => Cardinality(formula_rows(j)) = match_count(j)

\* C9: a direct-mapping record of a provider is skipped if and only if its
\* technical id is one of that provider's own XML-miner identifiers; rows of
\* providers processed before never cause it to be dropped.
C9_SkippedOnlyForOwnMinerIds ==
    \A j \in 1..Len(dp_folders) :
        merged(j) =>
            \A t \in direct_ids(j) :
                (direct_rows(rows_of(j), t) = {}) <=> (t \in miner_ids(j))

\* C10: for every row the merger emits, Databricks Column is
\* clean_column_name of the Display Name, or of the Technical ID when the
\* Display Name is empty.
C10_ColumnFromDisplayName ==
    pc = "providers" =>
        \A i \in 1..Len(mappings) :
            mappings[i].Databricks_Column =
                clean_column_name(IF mappings[i].Display_Name # ""
                                  THEN mappings[i].Display_Name
                                  ELSE mappings[i].Technical_ID)
====
